---- MODULE Spec2Model ----
(***************************************************************************)
(* Model of the decision logic of the boon-employee-portal repository:     *)
(*   - the nudge scheduler (modular and self-contained implementation),    *)
(*   - the Slack interaction (button click) handler, both implementations, *)
(*   - the timing gate isAppropriateTime,                                  *)
(*   - the survey progression resolver fetchPendingSurvey.                 *)
(* Every specification below fixes the variables of the parts it does not  *)
(* exercise.                                                               *)
(***************************************************************************)
EXTENDS Integers, Sequences, FiniteSets, TLC

(* ------------------------------ bounds --------------------------------- *)

\* Dispatch cycles started in one behaviour.
MaxCycles == 2
\* External failures (messaging API, store RPC) injected in one behaviour.
MaxFaults == 1
\* Text and placeholder pieces of one template body.
MaxBlocks == 2
\* Callbacks delivered to the interaction handler in one behaviour.
MaxRequests == 2
\* survey_submissions rows inserted by the portal in one behaviour.
MaxSubmissions == 2

(* ----------------------------- vocabulary ------------------------------ *)

NULL == "null"

Kinds == {"action_reminder", "goal_checkin", "session_prep"}
Cycles == {"timer", "manual"}
Impls == {"modular", "standalone"}

\* Emails as the tables hold them; Bob's is stored with a capital letter.
Emails == {"ann@boon.com", "Bob@boon.com"}

\* String.prototype.toLowerCase / SQL lower() on the emails of the model.
ToLower(s) ==
    CASE s = "Bob@boon.com" -> "bob@boon.com"
      [] s = "Ann@boon.com" -> "ann@boon.com"
      [] OTHER -> s

Identities == {ToLower(e) : e \in Emails}

VARIABLES
    hour,            \* recipient-local hour of day (0..23) at the time of the run
    h24,             \* whether the runtime's Intl prints midnight as "24"
    connections,     \* employee_slack_connections joined with the installation
    templates,       \* nudge_templates with is_default = true, by nudge_type
    action_items,    \* action_items table: id -> row
    session_tracking,\* session_tracking table joined with employee_manager
    slack_nudges,    \* slack_nudges table (NudgeRecords)
    slack_messages,  \* messages the messaging API accepted (chat.postMessage)
    impl,            \* which nudge-scheduler is deployed: modular or standalone
    cyc,             \* per invocation of nudge-scheduler: position and results
    started,         \* number of dispatch cycles started
    faults,          \* number of external failures injected
    tPreferred,      \* isAppropriateTime's preferredTime argument
    tTz,             \* whether its timezone argument is a valid zone name
    gate,            \* <<>> or <<result of isAppropriateTime>>
    signingSecret,   \* SLACK_SIGNING_SECRET ("" when not set)
    installations,   \* team ids with a row in slack_installations
    slack_updates,   \* chat.update calls accepted: message handle -> text
    reply,           \* <<>> or <<the last callback and the Response it got>>
    now,             \* new Date(): the number of callbacks handled so far
    survey_sessions, \* session_tracking rows of the surveyed employee
    survey_submissions, \* survey_submissions table
    rpcAnswers,      \* whether rpc get_pending_survey answers or errors
    pending,         \* <<>> or <<what fetchPendingSurvey returned last>>
    survey_competency_scores, \* survey_competency_scores table
    obliged,         \* <<session, kind>>: returned surveys the user submitted
    rBlocks,         \* a template's message blocks, as text and placeholders
    rVars,           \* the variables the Dispatcher passes to renderBlocks
    rendered,        \* <<>> or <<what renderBlocks returned>>
    scanned,         \* <<>> or <<what the goal check-in query returned>>
    linkedAs,        \* employee_email as stored in employee_slack_connections
    optedOut         \* per employee: 0, or the first cycle started after the
                     \* acknowledgement of their enabled=false update

\* Configuration and tables no handler of the model writes.
config == <<hour, h24, connections, templates, session_tracking, impl>>

\* What the scheduler reads and writes.
schedVars == <<config, action_items, slack_nudges, slack_messages, cyc,
               started, faults>>

\* The timing gate's inputs and result.
timeVars == <<tPreferred, tTz, gate>>

\* The interaction handler's world.
intVars == <<signingSecret, installations, slack_updates, reply, now>>

\* The survey resolver's world.
surveyVars == <<survey_sessions, survey_submissions, rpcAnswers, pending,
               survey_competency_scores, obliged>>

\* Inputs and results of the functions checked on their own.
fnVars == <<rBlocks, rVars, rendered, scanned>>

\* Account linking and settings.
linkVars == <<linkedAs, optedOut>>

vars == <<schedVars, timeVars, intVars, surveyVars, fnVars, linkVars>>

(* --------------------------- program constants ------------------------- *)

\* get_due_action_items is called with days_ahead: 2.
days_ahead == 2
\* Goal check-in window: threeDaysAgo / fourDaysAgo, in days relative to today.
threeDaysAgo == -3
fourDaysAgo == -4
\* Session prep: sessions dated tomorrow.
tomorrow == 1
\* isAppropriateTime: "Allow nudges within 1 hour of preferred time".
WindowHours == 1
\* The self-contained scheduler's default preferred hour ('9').
DefaultPreferredHour == 9

(* ------------------------------ the store ------------------------------ *)

\* A row of employee_slack_connections as get_employee_slack_connection
\* returns it.  preferred_time is <<hh, mm>> for "HH:MM" and <<>> for null;
\* tz_ok says whether timezone is a name Intl.DateTimeFormat accepts.
ConnRow(enabled, frequency, preferred, tz) ==
    [nudge_enabled |-> enabled, nudge_frequency |-> frequency,
     preferred_time |-> preferred, tz_ok |-> tz]

ConnOk == ConnRow(TRUE, "smart", <<14, 0>>, TRUE)
ConnDisabled == ConnRow(FALSE, "smart", <<14, 0>>, TRUE)
ConnFreqNone == ConnRow(TRUE, "none", <<14, 0>>, TRUE)
ConnNoPreferred == ConnRow(TRUE, "smart", <<>>, TRUE)
ConnBadTimezone == ConnRow(TRUE, "smart", <<14, 0>>, FALSE)

\* The DM channel of an employee's connection (slack_dm_channel_id).
ChannelOf(identity) == IF identity = "ann@boon.com" THEN "D-ann" ELSE "D-bob"

ActionIds == <<"a1", "a2">>
SessionIds == <<"s1", "s2", "s3", "s4", "s5">>

\* action_items as the scheduler scenarios start with: a1 is due tomorrow,
\* a2 is already completed.  completed_at is <<t>>, or <<>> for null.
SchedActionItems ==
    [id \in {"a1", "a2"} |->
        IF id = "a1"
        THEN [email |-> "ann@boon.com", status |-> "pending",
              completed_at |-> <<>>, due_date |-> 1]
        ELSE [email |-> "Bob@boon.com", status |-> "completed",
              completed_at |-> <<0>>, due_date |-> 1]]

\* session_tracking joined with employee_manager (company_email); dates are
\* days relative to today.
SessionRow(email, status, date, goals) ==
    [company_email |-> email, status |-> status, session_date |-> date,
     goals |-> goals]

SchedSessions ==
    [id \in {"s1", "s2", "s3", "s4", "s5"} |->
        CASE id = "s1" -> SessionRow("ann@boon.com", "Completed", -3, "text")
          [] id = "s2" -> SessionRow("ann@boon.com", "Completed", -4, "text")
          [] id = "s3" -> SessionRow("Bob@boon.com", "Upcoming", 1, NULL)
          [] id = "s4" -> SessionRow("Bob@boon.com", "Completed", -3, NULL)
          [] OTHER     -> SessionRow("ann@boon.com", "Completed", -5, "text")]

(* ------------------------- Eligibility Scanner ------------------------- *)

\* rpc get_due_action_items(days_ahead): action items due within the window
\* whose status is not terminal.
get_due_action_items(days) ==
    SelectSeq(ActionIds,
        LAMBDA id : /\ action_items[id].status \notin {"completed", "dismissed"}
                    /\ action_items[id].due_date >= 0
                    /\ action_items[id].due_date <= days)

\* The goal check-in query: Completed, fourDaysAgo <= session_date <=
\* threeDaysAgo, goals not null.
recentSessions ==
    SelectSeq(SessionIds,
        LAMBDA id : /\ session_tracking[id].status = "Completed"
                    /\ session_tracking[id].session_date >= fourDaysAgo
                    /\ session_tracking[id].session_date <= threeDaysAgo
                    /\ session_tracking[id].goals # NULL)

\* The session prep query: Upcoming, session_date = tomorrow.
upcomingSessions ==
    SelectSeq(SessionIds,
        LAMBDA id : /\ session_tracking[id].status = "Upcoming"
                    /\ session_tracking[id].session_date = tomorrow)

Candidates(kind) ==
    CASE kind = "action_reminder" -> get_due_action_items(days_ahead)
      [] kind = "goal_checkin" -> recentSessions
      [] OTHER -> upcomingSessions

\* The email a candidate carries: action.email, or the joined company_email.
CandidateEmail(kind, ref) ==
    IF kind = "action_reminder" THEN action_items[ref].email
    ELSE session_tracking[ref].company_email

\* The goal check-in query of one cycle, run on its own.
ScanGoalCheckins ==
    /\ scanned = <<>>
    /\ scanned' = <<recentSessions>>
    /\ UNCHANGED <<schedVars, timeVars, intVars, surveyVars, rBlocks, rVars,
                   rendered, linkVars>>

(* ------------------------------ Dispatcher ----------------------------- *)

Abs(x) == IF x < 0 THEN 0 - x ELSE x

\* parseInt(new Intl.DateTimeFormat('en-US', {timeZone, hour: 'numeric',
\* hour12: false}).format(now), 10): with hour12: false and the en-US locale
\* the hour cycle is h23 or h24 depending on the runtime's ECMA-402 level, so
\* midnight is printed "0" or "24".
userHour(h, cycle24) == IF h = 0 /\ cycle24 THEN 24 ELSE h

\* isAppropriateTime of the modular scheduler: an invalid timezone makes
\* Intl.DateTimeFormat throw and a null preferredTime makes .split throw;
\* the catch returns true.
isAppropriateTimeModular(preferredTime, tzOk, uh) ==
    IF ~tzOk \/ preferredTime = <<>> THEN TRUE
    ELSE Abs(uh - preferredTime[1]) <= WindowHours

\* isAppropriateTime of the self-contained scheduler:
\* preferredTime?.split(':')[0] || '9'.
isAppropriateTimeStandalone(preferredTime, tzOk, uh) ==
    IF ~tzOk THEN TRUE
    ELSE LET preferredHour == IF preferredTime = <<>> THEN DefaultPreferredHour
                              ELSE preferredTime[1]
         IN Abs(uh - preferredHour) <= WindowHours

isAppropriateTime(which, preferredTime, tzOk, uh) ==
    IF which = "modular" THEN isAppropriateTimeModular(preferredTime, tzOk, uh)
    ELSE isAppropriateTimeStandalone(preferredTime, tzOk, uh)

\* rpc get_employee_slack_connection(lookup_email): the connection rows of
\* the employee, matched on the employee identity.
get_employee_slack_connection(lookup_email) == connections[ToLower(lookup_email)]

\* Mutant: the lookup forgets .eq('reference_id', ref).
NudgeRowsAnyReference(email, kind, ref) ==
    {n \in slack_nudges : /\ n.employee_email = ToLower(email)
                          /\ n.nudge_type = kind}

\* from('slack_nudges').select('id').eq('employee_email', email.toLowerCase())
\*   .eq('nudge_type', kind).eq('reference_id', ref)
NudgeRows(email, kind, ref) ==
    {n \in slack_nudges : /\ n.employee_email = ToLower(email)
                          /\ n.nudge_type = kind
                          /\ n.reference_id = ref}

\* .single(): data is the row when exactly one row matches, and null (with an
\* error the scheduler ignores) when none or several match.
existingNudge(email, kind, ref) == Cardinality(NudgeRows(email, kind, ref)) = 1

\* Mutant: the guard forgets nudge_enabled.
connectionEnabledMutant(conns) == Len(conns) > 0

\* The enablement guard: !connection || !connection.nudge_enabled -> continue.
connectionEnabled(conns) == Len(conns) > 0 /\ conns[1].nudge_enabled

\* The guards between the connection lookup and the send, in the code's order:
\* connection and nudge_enabled, isAppropriateTime, template.
passesGuards(which, kind, email) ==
    LET conns == get_employee_slack_connection(email)
    IN /\ connectionEnabled(conns)
       /\ isAppropriateTime(which, conns[1].preferred_time, conns[1].tz_ok,
                            userHour(hour, h24))
       /\ templates[kind]

\* rpc record_nudge(p_employee_email, p_nudge_type, p_reference_id, ...,
\* p_message_ts, p_channel_id): a new NudgeRecord with status sent.
record_nudge(email, kind, ref, ts, channel) ==
    [employee_email |-> ToLower(email), nudge_type |-> kind,
     reference_id |-> ref, message_ts |-> ts, channel_id |-> channel,
     status |-> "sent", response |-> NULL, responded_at |-> <<>>]

(* ------------------------- one dispatch cycle -------------------------- *)

FirstStep(kind) == IF kind = "action_reminder" THEN "conn" ELSE "lookup"

\* const { data } = await <eligibility query>: the rows, or null when the
\* query of that category returns an error (the error is not destructured);
\* `if (data && data.length > 0)` / `data || []` then skips the loop.
QueryData(failed, kind) == IF kind \in failed THEN <<>> ELSE Candidates(kind)

\* The position the handler reaches when it turns to candidate i of a
\* category: that candidate, or the first candidate of the next non-empty
\* category, or the end of the handler.  failed are the categories whose
\* eligibility query returns an error in this invocation.
RECURSIVE Enter(_, _, _)
Enter(failed, kind, i) ==
    IF i <= Len(QueryData(failed, kind))
    THEN [phase |-> kind, idx |-> i, step |-> FirstStep(kind), done |-> FALSE]
    ELSE IF kind = "action_reminder" THEN Enter(failed, "goal_checkin", 1)
    ELSE IF kind = "goal_checkin" THEN Enter(failed, "session_prep", 1)
    ELSE [phase |-> "session_prep", idx |-> 0, step |-> "none", done |-> TRUE]

NoResults ==
    [action_reminder |-> 0, goal_checkin |-> 0, session_prep |-> 0, errors |-> 0]

IdleCycle ==
    [pc |-> "idle", phase |-> "session_prep", idx |-> 0, step |-> "none",
     ts |-> <<>>, results |-> NoResults, failed |-> {}]

CurRef(c) == Candidates(cyc[c].phase)[cyc[c].idx]
CurEmail(c) == CandidateEmail(cyc[c].phase, CurRef(c))

\* cyc' when cycle c is at position e with results res.
At(c, e, res) ==
    cyc' = [cyc EXCEPT ![c] =
              [pc |-> IF e.done THEN "idle" ELSE "run",
               phase |-> e.phase, idx |-> e.idx, step |-> e.step,
               ts |-> <<>>, results |-> res, failed |-> cyc[c].failed]]

\* `continue`, or the end of the loop body: on to the next candidate.
Proceed(c, res) ==
    At(c, Enter(cyc[c].failed, cyc[c].phase, cyc[c].idx + 1), res)

Running(c, step) == cyc[c].pc = "run" /\ cyc[c].step = step

\* Deno.serve handler entry: results zeroed, templates loaded, first query.
\* Which of the three eligibility queries of this invocation return an error
\* is the environment's choice; it is drawn here, and takes effect when the
\* handler reaches that category.
Begin(c) ==
    /\ cyc[c].pc = "idle"
    /\ started < MaxCycles
    /\ started' = started + 1
    /\ \E failed \in SUBSET Kinds :
          /\ faults + Cardinality(failed) <= MaxFaults
          /\ faults' = faults + Cardinality(failed)
          /\ LET e == Enter(failed, "action_reminder", 1)
             IN cyc' = [cyc EXCEPT ![c] =
                          [pc |-> IF e.done THEN "idle" ELSE "run",
                           phase |-> e.phase, idx |-> e.idx, step |-> e.step,
                           ts |-> <<>>, results |-> NoResults,
                           failed |-> failed]]
    /\ UNCHANGED <<config, action_items, slack_nudges, slack_messages,
                   timeVars, intVars, surveyVars,
                   fnVars, linkVars>>

\* A cycle starts (timer or manual trigger), whatever the other one is doing.
StartCycle(c) == Begin(c)

\* A cycle starts after the other one has returned.
StartCycleAfter(c) ==
    /\ \A d \in Cycles : cyc[d].pc = "idle"
    /\ Begin(c)

\* "Check if already nudged": the existingNudge query of the goal check-in
\* and session prep loops.
ExistingLookup(c) ==
    /\ Running(c, "lookup")
    /\ IF existingNudge(CurEmail(c), cyc[c].phase, CurRef(c))
       THEN Proceed(c, cyc[c].results)
       ELSE cyc' = [cyc EXCEPT ![c].step = "conn"]
    /\ UNCHANGED <<config, action_items, slack_nudges, slack_messages,
                   started, faults, timeVars, intVars, surveyVars,
                   fnVars, linkVars>>

\* get_employee_slack_connection and the guards up to the template.
ConnectionGuards(c) ==
    /\ Running(c, "conn")
    /\ IF passesGuards(impl, cyc[c].phase, CurEmail(c))
       THEN cyc' = [cyc EXCEPT ![c].step = "send"]
       ELSE Proceed(c, cyc[c].results)
    /\ UNCHANGED <<config, action_items, slack_nudges, slack_messages,
                   started, faults, timeVars, intVars, surveyVars,
                   fnVars, linkVars>>

\* The ts (message handle) the messaging API gives a new message: unique per
\* message; here the reference the message is about and its serial number.
NewTs(ref) ==
    <<ref, Cardinality({m \in slack_messages : m.reference_id = ref}) + 1>>

\* sendSlackMessage answers ok with a ts: the message is delivered.
SendOk(c) ==
    /\ Running(c, "send")
    /\ LET ts == NewTs(CurRef(c))
       IN /\ slack_messages' = slack_messages \cup
                {[ts |-> ts, channel |-> ChannelOf(ToLower(CurEmail(c))),
                  to |-> ToLower(CurEmail(c)), nudge_type |-> cyc[c].phase,
                  reference_id |-> CurRef(c)]}
          /\ cyc' = [cyc EXCEPT ![c].step = "record", ![c].ts = ts]
    /\ UNCHANGED <<config, action_items, slack_nudges, started, faults,
                   timeVars, intVars, surveyVars,
                   fnVars, linkVars>>

\* Mutant: record_nudge is called although the send was not acknowledged.
SendNotOkRecords(c) ==
    /\ Running(c, "send")
    /\ faults < MaxFaults
    /\ faults' = faults + 1
    /\ slack_nudges' = slack_nudges \cup
          {record_nudge(CurEmail(c), cyc[c].phase, CurRef(c),
                        NewTs(CurRef(c)), ChannelOf(ToLower(CurEmail(c))))}
    /\ Proceed(c, cyc[c].results)
    /\ UNCHANGED <<config, action_items, slack_messages, started, timeVars,
                   intVars, surveyVars,
                   fnVars, linkVars>>

\* sendSlackMessage answers ok: false (or without ts): the modular scheduler
\* counts an error, the self-contained one has no else branch.
SendNotOk(c) ==
    /\ Running(c, "send")
    /\ faults < MaxFaults
    /\ faults' = faults + 1
    /\ Proceed(c, IF impl = "modular"
                  THEN [cyc[c].results EXCEPT !.errors = @ + 1]
                  ELSE cyc[c].results)
    /\ UNCHANGED <<config, action_items, slack_nudges, slack_messages,
                   started, timeVars, intVars, surveyVars,
                   fnVars, linkVars>>

\* sendSlackMessage throws (fetch fails): the catch counts an error.
SendThrows(c) ==
    /\ Running(c, "send")
    /\ faults < MaxFaults
    /\ faults' = faults + 1
    /\ Proceed(c, [cyc[c].results EXCEPT !.errors = @ + 1])
    /\ UNCHANGED <<config, action_items, slack_nudges, slack_messages,
                   started, timeVars, intVars, surveyVars,
                   fnVars, linkVars>>

\* record_nudge after an acknowledged send, then the sent counter.
RecordNudge(c) ==
    /\ Running(c, "record")
    /\ slack_nudges' = slack_nudges \cup
          {record_nudge(CurEmail(c), cyc[c].phase, CurRef(c), cyc[c].ts,
                        ChannelOf(ToLower(CurEmail(c))))}
    /\ Proceed(c, [cyc[c].results EXCEPT ![cyc[c].phase] = @ + 1])
    /\ UNCHANGED <<config, action_items, slack_messages, started, faults,
                   timeVars, intVars, surveyVars,
                   fnVars, linkVars>>

\* record_nudge returns an error: the result of the rpc is not inspected, the
\* sent counter is incremented all the same.
RecordNudgeFails(c) ==
    /\ Running(c, "record")
    /\ faults < MaxFaults
    /\ faults' = faults + 1
    /\ Proceed(c, [cyc[c].results EXCEPT ![cyc[c].phase] = @ + 1])
    /\ UNCHANGED <<config, action_items, slack_nudges, slack_messages,
                   started, timeVars, intVars, surveyVars,
                   fnVars, linkVars>>

Step(c) ==
    \/ ExistingLookup(c)
    \/ ConnectionGuards(c)
    \/ SendOk(c)
    \/ SendNotOk(c)
    \/ SendThrows(c)
    \/ RecordNudge(c)
    \/ RecordNudgeFails(c)

(* ---------------------- account linking, settings ---------------------- *)

\* The email the portal holds for an employee (employee.company_email): the
\* connect link carries it as written, the settings request is made under
\* the authenticated user's email.
CompanyEmail(identity) == CHOOSE e \in Emails : ToLower(e) = identity

\* slack-oauth action=settings: update({nudge_enabled, ...})
\*   .eq('employee_email', user.email.toLowerCase()); the rows whose stored
\* email is exactly the lower-cased one are updated, and an update that
\* matches no row is no error.  The form sends the other three settings as
\* they are.  A failed update answers 500; any other outcome is acknowledged
\* with {success: true}.
UpdateSettings(user_email, nudge_enabled) ==
    \E updateError \in BOOLEAN :
        /\ updateError => faults < MaxFaults
        /\ faults' = IF updateError THEN faults + 1 ELSE faults
        /\ connections' =
              [id \in Identities |->
                  IF ~updateError /\ linkedAs[id] = ToLower(user_email)
                  THEN [i \in 1..Len(connections[id]) |->
                           [connections[id][i]
                               EXCEPT !.nudge_enabled = nudge_enabled]]
                  ELSE connections[id]]
        /\ optedOut' =
              IF updateError THEN optedOut
              ELSE [optedOut EXCEPT ![ToLower(user_email)] =
                       IF nudge_enabled THEN 0 ELSE started + 1]
        /\ UNCHANGED <<hour, h24, templates, session_tracking, impl,
                       action_items, slack_nudges, slack_messages, cyc,
                       started, timeVars, intVars, surveyVars, fnVars,
                       linkedAs>>

\* slack-oauth action=callback for an employee who is already linked:
\* upsert({employee_email, ..., nudge_enabled: true, nudge_frequency:
\* 'smart'}, {onConflict: 'employee_email,slack_team_id'}).  The row stored
\* under the same email is overwritten with these values; a failed upsert
\* changes nothing.
OAuthCallback(employeeEmail) ==
    LET id == ToLower(employeeEmail)
    IN /\ connections[id] # <<>>
       /\ linkedAs[id] = employeeEmail
       /\ \E connectionError \in BOOLEAN :
             /\ connectionError => faults < MaxFaults
             /\ faults' = IF connectionError THEN faults + 1 ELSE faults
             /\ connections' =
                   IF connectionError THEN connections
                   ELSE [connections EXCEPT ![id] =
                            [i \in 1..Len(connections[id]) |->
                                [connections[id][i]
                                    EXCEPT !.nudge_enabled = TRUE,
                                           !.nudge_frequency = "smart"]]]
       /\ UNCHANGED <<hour, h24, templates, session_tracking, impl,
                      action_items, slack_nudges, slack_messages, cyc,
                      started, timeVars, intVars, surveyVars, fnVars,
                      linkVars>>

(* ----------------------------- timing gate ----------------------------- *)

\* One evaluation of isAppropriateTime(timezone, preferredTime) by the
\* deployed scheduler at the current instant.
CheckTime ==
    /\ gate = <<>>
    /\ gate' = <<isAppropriateTime(impl, tPreferred, tTz, userHour(hour, h24))>>
    /\ UNCHANGED <<schedVars, tPreferred, tTz, intVars, surveyVars,
                   fnVars, linkVars>>

(* -------------------------- template rendering ------------------------- *)

\* JSON.stringify(blocks) as a sequence of pieces: literal text, or a
\* placeholder {{name}}.
Text(str) == [ph |-> FALSE, s |-> str]
Placeholder(name) == [ph |-> TRUE, s |-> name]

PlaceholderNames == {"first_name", "goals"}

\* Variable values: a plain string, a string with a double quote in it, or
\* null / undefined.
Quoted == "say \"hi\""
VarValues == {"Ann", Quoted, NULL}

\* JSON.parse of the substituted text: a value is pasted into the JSON text
\* unescaped, so a double quote in it ends the string literal and JSON.parse
\* throws.
JSONparse(pieces) ==
    IF \E i \in 1..Len(pieces) : ~pieces[i].ph /\ pieces[i].s = Quoted
    THEN [ok |-> FALSE, blocks |-> <<>>]
    ELSE [ok |-> TRUE, blocks |-> pieces]

\* renderTemplate of the shared module: every {{\w+}} is replaced, by
\* String(value) when variables[key] is neither null nor undefined and by ''
\* otherwise.
renderTemplate(template, variables) ==
    [i \in 1..Len(template) |->
        IF template[i].ph
        THEN LET key == template[i].s
             IN IF key \in DOMAIN variables /\ variables[key] # NULL
                THEN Text(variables[key]) ELSE Text("")
        ELSE template[i]]

\* renderBlocks of the shared module.
renderBlocksShared(blocks, variables) ==
    JSONparse(renderTemplate(blocks, variables))

\* renderBlocks of the self-contained scheduler: for each entry of vars,
\* json.replace(new RegExp('\{\{key\}\}', 'g'), String(value ?? '')); a
\* placeholder whose key is not an entry of vars is not touched.
renderBlocksStandalone(blocks, variables) ==
    JSONparse(
        [i \in 1..Len(blocks) |->
            IF blocks[i].ph /\ blocks[i].s \in DOMAIN variables
            THEN Text(IF variables[blocks[i].s] = NULL THEN ""
                      ELSE variables[blocks[i].s])
            ELSE blocks[i]])

renderBlocks(which, blocks, variables) ==
    IF which = "modular" THEN renderBlocksShared(blocks, variables)
    ELSE renderBlocksStandalone(blocks, variables)

\* One call of renderBlocks by the deployed scheduler.
Render ==
    /\ rendered = <<>>
    /\ rendered' = <<renderBlocks(impl, rBlocks, rVars)>>
    /\ UNCHANGED <<schedVars, timeVars, intVars, surveyVars, rBlocks, rVars,
                   scanned, linkVars>>

(* -------------------------- Response Recorder -------------------------- *)

\* The signing secret the messaging platform signs its callbacks with.
SlackSecret == "s3cr3t"

\* if (Math.abs(now - parseInt(timestamp)) > 300) return false;
ReplayWindow == 300

\* HMAC-SHA256 with `key` over `v0:${timestamp}:${body}`: equal digests come
\* from equal key, timestamp and body only.
Hmac(key, timestamp, body) == <<key, timestamp, body>>

\* Mutant: the comparison covers the body but not the key.
verifySignatureBodyOnly(secret, signature, timestamp, body) ==
    signature[3] = body

\* verifySlackSignature of _shared (used by slack-interactions/index.ts).
verifySlackSignature(secret, signature, timestamp, body) ==
    Hmac(secret, timestamp, body) = signature

\* verifySlackSignature of the self-contained handler.  A request's timestamp
\* is held as its age in seconds, now - parseInt(timestamp).
verifySlackSignatureStandalone(secret, signature, timestamp, body) ==
    /\ ~(Abs(timestamp) > ReplayWindow)
    /\ Hmac(secret, timestamp, body) = signature

\* The button ids of the switch, and one the switch does not know.
\* The action ids the switch has a case for.
HandledButtons ==
    {"action_done", "action_in_progress", "action_reschedule", "need_help",
     "progress_great", "progress_slow", "progress_stuck"}
Buttons == HandledButtons \cup {"remind_later"}

\* A request body.  payload is "missing" (no payload field), "malformed"
\* (JSON.parse throws) or "json"; block_id is the sequence of the parts
\* between its underscores; message is <<ts, channel id>>, or <<>> when the
\* payload has no message.
Body(payload, type, team, action_id, block_id, message) ==
    [payload |-> payload, type |-> type, team |-> team,
     action_id |-> action_id, block_id |-> block_id, message |-> message]

MissingPayloadBody == Body("missing", "", "", "", <<"">>, <<>>)
MalformedBody == Body("malformed", "", "", "", <<"">>, <<>>)
UrlVerificationBody == Body("json", "url_verification", "", "", <<"">>, <<>>)

\* The nudge messages the interaction scenarios start with.
ActionMessage == [ts |-> <<"a1", 1>>, channel |-> "D-ann", to |-> "ann@boon.com",
                  nudge_type |-> "action_reminder", reference_id |-> "a1"]
GoalMessage == [ts |-> <<"s1", 1>>, channel |-> "D-ann", to |-> "ann@boon.com",
                nudge_type |-> "goal_checkin", reference_id |-> "s1"]

DoneClick == Body("json", "block_actions", "T1", "action_done",
                  <<"action", "a1">>, <<ActionMessage.ts, ActionMessage.channel>>)

ClickBodies ==
    {Body("json", "block_actions", "T1", b, blk, msg) :
        b \in Buttons,
        blk \in {<<"action", "a1">>, <<"">>},
        msg \in {<<ActionMessage.ts, ActionMessage.channel>>, <<>>}}
    \cup {Body("json", "block_actions", "T9", "action_done", <<"action", "a1">>,
               <<ActionMessage.ts, ActionMessage.channel>>)}

Bodies ==
    ClickBodies \cup {MissingPayloadBody, MalformedBody, UrlVerificationBody}

ProbeBodies == {DoneClick, MissingPayloadBody}

\* A request as it arrives: x-slack-signature, x-slack-request-timestamp
\* (as age in seconds) and the raw body.
Request(signature, timestamp, body) ==
    [signature |-> signature, timestamp |-> timestamp, body |-> body]

Requests ==
    \* signed by the platform, inside the replay window
    {Request(Hmac(SlackSecret, 0, b), 0, b) : b \in Bodies}
    \* signed by the platform, at the edge of the replay window
    \cup {Request(Hmac(SlackSecret, ReplayWindow, b), ReplayWindow, b) :
            b \in ProbeBodies}
    \* a genuine request replayed after the window
    \cup {Request(Hmac(SlackSecret, ReplayWindow + 1, b), ReplayWindow + 1, b) :
            b \in ProbeBodies}
    \* signed with another key
    \cup {Request(Hmac("guess", 0, b), 0, b) : b \in ProbeBodies}
    \* a genuine signature put on another body
    \cup {Request(Hmac(SlackSecret, 0, UrlVerificationBody), 0, b) : b \in ProbeBodies}
    \* an old genuine request given a fresh timestamp header
    \cup {Request(Hmac(SlackSecret, ReplayWindow + 1, b), 0, b) : b \in ProbeBodies}

\* The signature check of the deployed handler: index.ts calls the shared
\* function; the self-contained handler skips the check when the secret is
\* not set.
verified(req) ==
    IF impl = "modular"
    THEN verifySlackSignature(signingSecret, req.signature, req.timestamp,
                              req.body)
    ELSE \/ signingSecret = ""
         \/ verifySlackSignatureStandalone(signingSecret, req.signature,
                                           req.timestamp, req.body)

\* How far the handler gets before it touches the store.
Stage(req) ==
    IF impl = "modular" /\ signingSecret = "" THEN "threw"      \* getEnvVar
    ELSE IF ~verified(req) THEN "invalid_signature"
    ELSE IF req.body.payload = "missing" THEN "missing_payload"
    ELSE IF req.body.payload = "malformed" THEN "threw"         \* JSON.parse
    ELSE IF req.body.type = "url_verification" THEN "challenge"
    ELSE IF req.body.type # "block_actions" THEN "default_ack"
    ELSE IF req.body.team \notin installations THEN "no_installation"
    ELSE "switch"

\* new Response(..., {status}) of each exit.
StatusOf(stage) ==
    CASE stage = "invalid_signature" -> 401
      [] stage = "missing_payload" -> 400
      [] OTHER -> 200

\* blockId.split('_')[1]: <<id>>, or <<>> for undefined.
referenceId(block_id) == IF Len(block_id) >= 2 THEN <<block_id[2]>> ELSE <<>>

\* Which external calls the switch reaches.  index.ts: the update of
\* action_items comes first and is unconditional; message.ts throws when the
\* payload has no message.  Self-contained: record_nudge_response comes
\* first, guarded by message?.ts && channel?.id, for any action id; the update
\* is guarded by referenceId; channel.id throws when there is no message.
\* Mutant: every handled button updates the action item.
callsUpdateAnyButton(b) ==
    /\ b.action_id \in HandledButtons
    /\ impl = "standalone" => referenceId(b.block_id) # <<>>

callsUpdate(b) ==
    /\ b.action_id = "action_done"
    /\ impl = "standalone" => referenceId(b.block_id) # <<>>

callsRpc(b) ==
    /\ b.message # <<>>
    /\ impl = "modular" => b.action_id \in HandledButtons

callsChat(b) == b.action_id \in HandledButtons /\ b.message # <<>>

\* Mutant: the update flips the status instead of setting it.
markToggled(row, t) ==
    IF row.status = "completed"
    THEN [row EXCEPT !.status = "pending", !.completed_at = <<>>]
    ELSE [row EXCEPT !.status = "completed", !.completed_at = <<t>>]

\* .update({status: 'completed', completed_at: new Date().toISOString()})
markCompleted(row, t) ==
    [row EXCEPT !.status = "completed", !.completed_at = <<t>>]

\* from('action_items').update(...).eq('id', referenceId)
updateActionItems(ref, t) ==
    [id \in DOMAIN action_items |->
        IF ref = <<id>> THEN markCompleted(action_items[id], t)
        ELSE action_items[id]]

\* rpc record_nudge_response(p_message_ts, p_channel_id, p_response): the
\* NudgeRecord with that handle and channel, if any, becomes responded.
record_nudge_response(ts, channel, response, t) ==
    {IF n.message_ts = ts /\ n.channel_id = channel
     THEN [n EXCEPT !.status = "responded", !.response = response,
                    !.responded_at = <<t>>]
     ELSE n : n \in slack_nudges}

\* updateSlackMessage (chat.update): the message's blocks are replaced by the
\* acknowledgement of the button.
updateSlackMessage(ts, channel, button) ==
    [h \in DOMAIN slack_updates |->
        IF h = <<ts, channel>> THEN button ELSE slack_updates[h]]

Failures == {"none", "update", "rpc", "chat"}

\* One callback, from Deno.serve's entry to its Response.  fail names the
\* external call that fails in this invocation, if any: the update and the
\* rpc return an error the handler logs or ignores, chat.update throws or
\* answers ok: false.
Callback(req, fail) ==
    /\ now < MaxRequests
    /\ LET b == req.body
           stage == Stage(req)
           upd == stage = "switch" /\ callsUpdate(b)
           rpc == stage = "switch" /\ callsRpc(b)
           chat == stage = "switch" /\ callsChat(b)
       IN /\ fail = "update" => upd
          /\ fail = "rpc" => rpc
          /\ fail = "chat" => chat
          /\ fail # "none" => faults < MaxFaults
          /\ faults' = IF fail = "none" THEN faults ELSE faults + 1
          /\ action_items' =
                IF upd /\ fail # "update"
                THEN updateActionItems(referenceId(b.block_id), now)
                ELSE action_items
          /\ slack_nudges' =
                IF rpc /\ fail # "rpc"
                THEN record_nudge_response(b.message[1], b.message[2],
                                           b.action_id, now)
                ELSE slack_nudges
          /\ slack_updates' =
                IF chat /\ fail # "chat"
                THEN updateSlackMessage(b.message[1], b.message[2], b.action_id)
                ELSE slack_updates
          /\ reply' = <<[request |-> req, failed |-> fail,
                         stage |-> stage, status |-> StatusOf(stage),
                         again |-> reply # <<>> /\ reply[1].request = req]>>
    /\ now' = now + 1
    /\ UNCHANGED <<config, slack_messages, cyc, started, timeVars,
                   signingSecret, installations, surveyVars,
                   fnVars, linkVars>>

\* The portal's action item statuses (CHECK constraint of action_items).
ItemStatuses == {"pending", "completed", "dismissed"}

\* Mutant: the portal update writes the status alone.
setStatusOnly(row, status, t) == [row EXCEPT !.status = status]

\* .update({status, completed_at: status === 'completed'
\*              ? new Date().toISOString() : null})
setStatus(row, status, t) ==
    [row EXCEPT !.status = status,
                !.completed_at = IF status = "completed" THEN <<t>> ELSE <<>>]

\* updateActionItemStatus(itemId, status) of the portal: one update of the
\* row with that id; an error is logged and false returned.
UpdateActionItemStatus(itemId, status) ==
    /\ \E error \in BOOLEAN :
          /\ error => faults < MaxFaults
          /\ faults' = IF error THEN faults + 1 ELSE faults
          /\ action_items' =
                IF error THEN action_items
                ELSE [id \in DOMAIN action_items |->
                         IF id = itemId
                         THEN setStatus(action_items[id], status, now)
                         ELSE action_items[id]]
    /\ UNCHANGED <<config, slack_nudges, slack_messages, cyc, started,
                   timeVars, intVars, surveyVars, fnVars, linkVars>>

(* -------------------- Survey Progression Resolver ---------------------- *)

\* .in('appointment_number', [1, 3, 6, 12, 18, 24, 30, 36])
Milestones == {1, 3, 6, 12, 18, 24, 30, 36}

SurveySessionIds == {"v1", "v2", "v3", "v6"}

\* session_tracking.program_name values of the model.
Programs == {"GROW", "Grow", "GROW - Cohort 1", "SCALE"}

\* String.prototype.toUpperCase on the program names of the model.
ToUpper(s) == IF s = "Grow" THEN "GROW" ELSE s

\* What fetchPendingSurvey returns for "no pending survey" (null).
NoPending == [session_id |-> "none", session_number |-> 0, survey_type |-> "none"]

PendingSurvey(id, type) ==
    [session_id |-> id,
     session_number |-> survey_sessions[id].appointment_number,
     survey_type |-> type]

\* A survey_submissions row for (email, session) exists.
hasSubmission(email, id) ==
    \E ss \in survey_submissions :
        ToLower(ss.email) = ToLower(email) /\ ss.session_id = id

\* The pending_surveys view restricted to one email: completed milestone
\* sessions with no survey_submissions row joined to them.
pending_surveys(email) ==
    {id \in DOMAIN survey_sessions :
        /\ ToLower(survey_sessions[id].employee_email) = ToLower(email)
        /\ survey_sessions[id].status = "Completed"
        /\ survey_sessions[id].appointment_number \in Milestones
        /\ ~hasSubmission(email, id)}

\* get_pending_survey(user_email): ... ORDER BY ps.session_date DESC LIMIT 1,
\* with survey_type = suggested_survey_type ('scale_feedback').
get_pending_survey(user_email) ==
    LET rows == pending_surveys(user_email)
    IN IF rows = {} THEN <<>>
       ELSE LET first == CHOOSE id \in rows : \A o \in rows :
                            survey_sessions[o].session_date <=
                                survey_sessions[id].session_date
            IN <<PendingSurvey(first, "scale_feedback")>>

\* Mutant: the baseline lookup filters on another survey kind.
hasCompletedOtherKind(email) ==
    \E ss \in survey_submissions :
        ToLower(ss.email) = ToLower(email) /\ ss.survey_type = "grow_end"

\* hasCompletedBaselineSurvey(email)
hasCompletedBaselineSurvey(email) ==
    \E ss \in survey_submissions :
        ToLower(ss.email) = ToLower(email) /\ ss.survey_type = "grow_baseline"

\* The fallback query: Completed sessions of the employee at the milestone
\* ordinals, .order('session_date', {ascending: true}).
RECURSIVE OrderBySessionDate(_)
OrderBySessionDate(ids) ==
    IF ids = {} THEN <<>>
    ELSE LET first == CHOOSE id \in ids : \A o \in ids :
                         survey_sessions[id].session_date <=
                             survey_sessions[o].session_date
         IN <<first>> \o OrderBySessionDate(ids \ {first})

fallbackSessions(email) ==
    OrderBySessionDate(
        {id \in DOMAIN survey_sessions :
            /\ ToLower(survey_sessions[id].employee_email) = ToLower(email)
            /\ survey_sessions[id].status = "Completed"
            /\ survey_sessions[id].appointment_number \in Milestones})

\* for (const session of sessions): the first session without a submission,
\* with the survey type resolved from the session's program.
RECURSIVE firstWithoutSurvey(_, _, _)
firstWithoutSurvey(email, sessions, i) ==
    IF i > Len(sessions) THEN NoPending
    ELSE IF hasSubmission(email, sessions[i])
         THEN firstWithoutSurvey(email, sessions, i + 1)
    ELSE LET isGrow ==
                 ToUpper(survey_sessions[sessions[i]].program_name) = "GROW"
         IN PendingSurvey(sessions[i],
                          IF isGrow /\ ~hasCompletedBaselineSurvey(email)
                          THEN "grow_baseline" ELSE "scale_feedback")

\* fetchPendingSurvey(email): the rpc first; the fallback when the rpc errors
\* or returns no row.
fetchPendingSurvey(email) ==
    LET rpcData == IF rpcAnswers THEN get_pending_survey(email) ELSE <<>>
    IN IF Len(rpcData) > 0 THEN rpcData[1]
       ELSE firstWithoutSurvey(email, fallbackSessions(email), 1)

\* The portal asks for the pending survey of the logged-in employee.
FetchPendingSurvey ==
    /\ pending' = <<fetchPendingSurvey("ann@boon.com")>>
    /\ pending' # pending
    /\ UNCHANGED <<schedVars, timeVars, intVars, survey_sessions,
                   survey_submissions, rpcAnswers, survey_competency_scores,
                   obliged,
                   fnVars, linkVars>>

\* The competencies a GROW survey scores (two of core_competencies).
Competencies == {"Effective Communication", "Strategic Thinking"}

\* Rows the portal has inserted; seeded rows carry ids below 10.
Inserted == {ss \in survey_submissions : ss.id >= 10}

\* The id the store gives the next inserted survey_submissions row.
NewSubmissionId == 10 + Cardinality(survey_submissions)

\* An insert that drops the session reference.
SubmissionRowNoSession(email, sessionId, surveyType) ==
    [id |-> 10 + Cardinality(survey_submissions), email |-> ToLower(email),
     session_id |-> "none", survey_type |-> surveyType]

\* .from('survey_submissions').insert({...}): the inserted row.
SubmissionRow(email, sessionId, surveyType) ==
    [id |-> NewSubmissionId, email |-> ToLower(email),
     session_id |-> sessionId, survey_type |-> surveyType]

\* competencyRecords: one row per scored competency.
competencyRecords(submissionId, scoreType) ==
    {[survey_submission_id |-> submissionId, competency_name |-> c,
      score_type |-> scoreType] : c \in Competencies}

\* The pending survey the user is answering, if it is of this kind.
Answers(surveyType) ==
    IF pending # <<>> /\ pending[1].survey_type = surveyType
    THEN {<<pending[1].session_id, surveyType>>} ELSE {}

\* submitScaleFeedbackSurvey(email, sessionId, ...): one insert carrying the
\* session reference; the insert may fail.  Called for the pending survey
\* the portal shows or for /feedback?session_id=... of a session of the user.
SubmitScaleFeedbackSurvey(email, sessionId) ==
    /\ Cardinality(Inserted) < MaxSubmissions
    /\ ToLower(survey_sessions[sessionId].employee_email) = ToLower(email)
    /\ \E error \in BOOLEAN :
          /\ survey_submissions' =
                 IF error THEN survey_submissions
                 ELSE survey_submissions \cup
                          {SubmissionRow(email, sessionId, "scale_feedback")}
          /\ obliged' =
                 IF ~error /\ <<sessionId, "scale_feedback">>
                                  \in Answers("scale_feedback")
                 THEN obliged \cup {<<sessionId, "scale_feedback">>}
                 ELSE obliged
    /\ pending' = <<>>
    /\ UNCHANGED <<schedVars, timeVars, intVars, survey_sessions, rpcAnswers,
                   survey_competency_scores,
                   fnVars, linkVars>>

\* submitGrowBaselineSurvey / submitGrowEndSurvey: insert the submission
\* (no session reference), then insert the competency scores; either insert
\* may fail, and a failure of the second leaves the first in place.
submitGrowSurvey(email, surveyType, scoreType, answered) ==
    /\ Cardinality(Inserted) < MaxSubmissions
    /\ \E submissionError \in BOOLEAN, scoresError \in BOOLEAN :
          /\ submissionError => ~scoresError
          /\ survey_submissions' =
                 IF submissionError THEN survey_submissions
                 ELSE survey_submissions \cup
                          {SubmissionRow(email, "none", surveyType)}
          /\ survey_competency_scores' =
                 IF submissionError \/ scoresError
                 THEN survey_competency_scores
                 ELSE survey_competency_scores \cup
                          competencyRecords(NewSubmissionId, scoreType)
          /\ obliged' =
                 IF submissionError \/ scoresError THEN obliged
                 ELSE obliged \cup answered
    /\ pending' = <<>>
    /\ UNCHANGED <<schedVars, timeVars, intVars, survey_sessions, rpcAnswers,
                   fnVars, linkVars>>

SubmitGrowBaselineSurvey(email) ==
    submitGrowSurvey(email, "grow_baseline", "pre", Answers("grow_baseline"))

SubmitGrowEndSurvey(email) ==
    submitGrowSurvey(email, "grow_end", "post", {})

\* The user answers the survey fetchPendingSurvey returned: the submit
\* function of the returned kind, for the returned session.
AnswerPending ==
    /\ pending # <<>>
    /\ pending[1] # NoPending
    /\ \/ /\ pending[1].survey_type = "scale_feedback"
          /\ SubmitScaleFeedbackSurvey("ann@boon.com", pending[1].session_id)
       \/ /\ pending[1].survey_type = "grow_baseline"
          /\ SubmitGrowBaselineSurvey("ann@boon.com")

(* --------------------------- specifications ---------------------------- *)

\* The parts a specification does not exercise stay in these states.
SchedIdle ==
    /\ hour = 15
    /\ h24 = FALSE
    /\ connections = [id \in Identities |-> <<ConnOk>>]
    /\ templates = [k \in Kinds |-> TRUE]
    /\ action_items = SchedActionItems
    /\ session_tracking = SchedSessions
    /\ slack_nudges = {}
    /\ slack_messages = {}
    /\ impl = "modular"
    /\ cyc = [c \in Cycles |-> IdleCycle]
    /\ started = 0
    /\ faults = 0

TimeIdle == tPreferred = <<>> /\ tTz = TRUE /\ gate = <<>>

IntIdle ==
    /\ signingSecret = SlackSecret
    /\ installations = {"T1"}
    /\ slack_updates = <<>>
    /\ reply = <<>>
    /\ now = 0

FnIdle == rBlocks = <<>> /\ rVars = <<>> /\ rendered = <<>> /\ scanned = <<>>

LinkIdle ==
    /\ linkedAs = [id \in Identities |-> id]
    /\ optedOut = [id \in Identities |-> 0]

SurveyIdle ==
    /\ survey_sessions = <<>>
    /\ survey_submissions = {}
    /\ rpcAnswers = TRUE
    /\ pending = <<>>
    /\ survey_competency_scores = {}
    /\ obliged = {}


SchedHours == {15, 16}

SchedConnections ==
    {[id \in Identities |-> IF id = "ann@boon.com" THEN a ELSE b] :
        a \in {<<>>, <<ConnOk>>, <<ConnDisabled>>, <<ConnFreqNone>>,
               <<ConnNoPreferred>>, <<ConnBadTimezone>>},
        b \in {<<ConnOk>>, <<ConnDisabled>>}}

SchedTemplates ==
    {[k \in Kinds |-> k # missing] : missing \in {"none", "goal_checkin"}}

InitSched ==
    /\ hour \in SchedHours
    /\ h24 = FALSE
    /\ connections \in SchedConnections
    /\ templates \in SchedTemplates
    /\ action_items = SchedActionItems
    /\ session_tracking = SchedSessions
    /\ slack_nudges = {}
    /\ slack_messages = {}
    /\ impl \in Impls
    /\ cyc = [c \in Cycles |-> IdleCycle]
    /\ started = 0
    /\ faults = 0
    /\ TimeIdle /\ IntIdle /\ SurveyIdle /\ FnIdle /\ LinkIdle

\* The overlapping runs start from the stores in which everybody is linked:
\* Ann enabled or disabled, Bob enabled, every template configured.
InitOverlap ==
    /\ InitSched
    /\ hour = 15
    /\ connections["ann@boon.com"] \in {<<ConnOk>>, <<ConnDisabled>>}
    /\ connections["bob@boon.com"] = <<ConnOk>>
    /\ \A k \in Kinds : templates[k]

\* Overlapping cycles: the timer and a manual trigger interleave at any step.
NextOverlap == \E c \in Cycles : StartCycle(c) \/ Step(c)

\* Cycles one after the other: a cycle starts when no other is running.
NextSeq == \E c \in Cycles : StartCycleAfter(c) \/ Step(c)

SpecOverlap == InitOverlap /\ [][NextOverlap]_vars
SpecSeq == InitSched /\ [][NextSeq]_vars

\* The stores two overlapping cycles leave behind when both looked s1 up
\* before either recorded it: the action reminder a1 and the goal check-in
\* s1 sent and recorded twice, s2 and s3 once.  Cycles then run one after the
\* other from these stores.
RacedKeys ==
    {<<"ann@boon.com", "action_reminder", "a1", 1>>,
     <<"ann@boon.com", "action_reminder", "a1", 2>>,
     <<"ann@boon.com", "goal_checkin", "s1", 1>>,
     <<"ann@boon.com", "goal_checkin", "s1", 2>>,
     <<"ann@boon.com", "goal_checkin", "s2", 1>>,
     <<"bob@boon.com", "session_prep", "s3", 1>>}

InitRaced ==
    /\ hour = 15
    /\ h24 = FALSE
    /\ connections = [id \in Identities |-> <<ConnOk>>]
    /\ templates = [k \in Kinds |-> TRUE]
    /\ action_items = SchedActionItems
    /\ session_tracking = SchedSessions
    /\ slack_nudges =
          {record_nudge(k[1], k[2], k[3], <<k[3], k[4]>>, ChannelOf(k[1])) :
              k \in RacedKeys}
    /\ slack_messages =
          {[ts |-> <<k[3], k[4]>>, channel |-> ChannelOf(k[1]), to |-> k[1],
            nudge_type |-> k[2], reference_id |-> k[3]] : k \in RacedKeys}
    /\ impl \in Impls
    /\ cyc = [c \in Cycles |-> IdleCycle]
    /\ started = 0
    /\ faults = 0
    /\ TimeIdle /\ IntIdle /\ SurveyIdle /\ FnIdle /\ LinkIdle

SpecRaced == InitRaced /\ [][NextSeq]_vars

\* The timing gate over every hour of the day and every preferred hour.
Hours == 0..23

InitTime ==
    /\ hour \in Hours
    /\ h24 \in BOOLEAN
    /\ impl \in Impls
    /\ tPreferred \in {<<>>} \cup {<<p, m>> : p \in Hours, m \in {0, 30}}
    /\ tTz \in BOOLEAN
    /\ gate = <<>>
    /\ connections = [id \in Identities |-> <<ConnOk>>]
    /\ templates = [k \in Kinds |-> TRUE]
    /\ action_items = SchedActionItems
    /\ session_tracking = SchedSessions
    /\ slack_nudges = {}
    /\ slack_messages = {}
    /\ cyc = [c \in Cycles |-> IdleCycle]
    /\ started = 0
    /\ faults = 0
    /\ IntIdle /\ SurveyIdle /\ FnIdle /\ LinkIdle

NextTime == CheckTime

SpecTime == InitTime /\ [][NextTime]_vars

\* The interaction handler: Ann has been sent an action reminder for a1 and a
\* goal check-in for s1, both recorded.
InitInt ==
    /\ impl \in Impls
    /\ signingSecret \in {"", SlackSecret}
    /\ installations = {"T1"}
    /\ action_items = SchedActionItems
    /\ slack_messages = {ActionMessage, GoalMessage}
    /\ slack_nudges =
          {record_nudge(m.to, m.nudge_type, m.reference_id, m.ts, m.channel) :
              m \in {ActionMessage, GoalMessage}}
    /\ slack_updates =
          [h \in {<<m.ts, m.channel>> : m \in {ActionMessage, GoalMessage}} |->
              "nudge"]
    /\ reply = <<>>
    /\ now = 0
    /\ faults = 0
    /\ hour = 15
    /\ h24 = FALSE
    /\ connections = [id \in Identities |-> <<ConnOk>>]
    /\ templates = [k \in Kinds |-> TRUE]
    /\ session_tracking = SchedSessions
    /\ cyc = [c \in Cycles |-> IdleCycle]
    /\ started = 0
    /\ TimeIdle /\ SurveyIdle /\ FnIdle /\ LinkIdle

NextInt == \E req \in Requests, fail \in Failures : Callback(req, fail)

SpecInt == InitInt /\ [][NextInt]_vars

\* Action items written from both sides: 'done' clicks arriving from the
\* messaging platform and status changes made in the portal, interleaved.
DoneRequests == {req \in Requests : req.body.action_id = "action_done"}

InitItems == InitInt

NextItems ==
    \/ \E req \in DoneRequests, fail \in Failures : Callback(req, fail)
    \/ \E id \in DOMAIN action_items, status \in ItemStatuses :
           UpdateActionItemStatus(id, status)

SpecItems == InitItems /\ [][NextItems]_vars

\* The survey resolver: Ann's sessions v1, v2, v3, v6 (appointment numbers 1,
\* 2, 3, 6, held in that order); v2, not a milestone, is completed, each
\* milestone session is completed or not, and surveyed or not.
SurveySession(n, status, program) ==
    [employee_email |-> "Ann@boon.com", appointment_number |-> n,
     session_date |-> n, status |-> status, program_name |-> program]

InitSurvey ==
    /\ \E completed \in SUBSET {"v1", "v3", "v6"}, program \in Programs :
          survey_sessions =
              [id \in SurveySessionIds |->
                  SurveySession(CASE id = "v1" -> 1 [] id = "v2" -> 2
                                  [] id = "v3" -> 3 [] OTHER -> 6,
                                IF id \in completed \cup {"v2"}
                                THEN "Completed"
                                ELSE "Upcoming",
                                program)]
    /\ \E surveyed \in SUBSET {"v1", "v3", "v6"}, baseline \in BOOLEAN :
          /\ survey_submissions =
                {[id |-> survey_sessions[id].appointment_number,
                  email |-> "ann@boon.com", session_id |-> id,
                  survey_type |-> "scale_feedback"] : id \in surveyed}
                \cup (IF baseline
                      THEN {[id |-> 0, email |-> "ann@boon.com",
                             session_id |-> "none",
                             survey_type |-> "grow_baseline"]}
                      ELSE {})
          /\ survey_competency_scores =
                 IF baseline THEN competencyRecords(0, "pre") ELSE {}
    /\ rpcAnswers \in BOOLEAN
    /\ pending = <<>>
    /\ obliged = {}
    /\ SchedIdle /\ TimeIdle /\ IntIdle /\ FnIdle /\ LinkIdle

NextSurvey ==
    \/ FetchPendingSurvey
    \/ \E id \in SurveySessionIds :
           SubmitScaleFeedbackSurvey("ann@boon.com", id)
    \/ SubmitGrowBaselineSurvey("ann@boon.com")
    \/ SubmitGrowEndSurvey("ann@boon.com")

SpecSurvey == InitSurvey /\ [][NextSurvey]_vars

\* Survey progression: the employee keeps asking for the pending survey and
\* answering the one returned.  The surveys owed at the start fit the
\* submission budget; a submission may fail, and is retried after the next
\* fetch.
Owed ==
    Cardinality(pending_surveys("ann@boon.com"))
        + (IF /\ ~rpcAnswers
              /\ pending_surveys("ann@boon.com") # {}
              /\ ~hasCompletedBaselineSurvey("ann@boon.com")
              /\ \E id \in DOMAIN survey_sessions :
                    ToUpper(survey_sessions[id].program_name) = "GROW"
           THEN 1 ELSE 0)

InitProgress == InitSurvey /\ Owed <= MaxSubmissions

NextProgress == FetchPendingSurvey \/ AnswerPending

\* An insert into survey_submissions that succeeds.
AnswerRecorded == AnswerPending /\ survey_submissions' # survey_submissions

\* The portal fetches whenever the answer would change; a user who keeps
\* answering is not refused by the store for ever.
SpecProgress ==
    /\ InitProgress
    /\ [][NextProgress]_vars
    /\ WF_vars(FetchPendingSurvey)
    /\ SF_vars(AnswerRecorded)

\* Template rendering: every template body of up to MaxBlocks pieces, every
\* choice of supplied variables, either scheduler.
Pieces == {Text("Hi ")} \cup {Placeholder(n) : n \in PlaceholderNames}

RECURSIVE SeqsUpTo(_, _)
SeqsUpTo(S, n) ==
    IF n = 0 THEN {<<>>}
    ELSE LET shorter == SeqsUpTo(S, n - 1)
         IN shorter \cup {Append(q, x) : q \in shorter, x \in S}

InitRender ==
    /\ rBlocks \in SeqsUpTo(Pieces, MaxBlocks) \ {<<>>}
    /\ rVars \in UNION {[S -> VarValues] : S \in SUBSET PlaceholderNames}
    /\ rendered = <<>>
    /\ scanned = <<>>
    /\ impl \in Impls
    /\ hour = 15
    /\ h24 = FALSE
    /\ connections = [id \in Identities |-> <<ConnOk>>]
    /\ templates = [k \in Kinds |-> TRUE]
    /\ action_items = SchedActionItems
    /\ session_tracking = SchedSessions
    /\ slack_nudges = {}
    /\ slack_messages = {}
    /\ cyc = [c \in Cycles |-> IdleCycle]
    /\ started = 0
    /\ faults = 0
    /\ TimeIdle /\ IntIdle /\ SurveyIdle /\ LinkIdle

NextRender == Render

SpecRender == InitRender /\ [][NextRender]_vars

\* The goal check-in query over session tables in which the sessions s4 and
\* s5 take every status, every date from 5 to 2 days back, and goals null,
\* empty or filled.
ProbeSessions ==
    {SessionRow("ann@boon.com", st, d, g) :
        st \in {"Completed", "Upcoming"}, d \in -5..-2,
        g \in {NULL, "", "text"}}

InitScan ==
    /\ \E p4 \in ProbeSessions, p5 \in ProbeSessions :
          session_tracking =
              [SchedSessions EXCEPT !["s4"] = p4, !["s5"] = p5]
    /\ scanned = <<>>
    /\ rBlocks = <<>> /\ rVars = <<>> /\ rendered = <<>>
    /\ hour = 15
    /\ h24 = FALSE
    /\ connections = [id \in Identities |-> <<ConnOk>>]
    /\ templates = [k \in Kinds |-> TRUE]
    /\ action_items = SchedActionItems
    /\ slack_nudges = {}
    /\ slack_messages = {}
    /\ impl = "modular"
    /\ cyc = [c \in Cycles |-> IdleCycle]
    /\ started = 0
    /\ faults = 0
    /\ TimeIdle /\ IntIdle /\ SurveyIdle /\ LinkIdle

NextScan == ScanGoalCheckins

SpecScan == InitScan /\ [][NextScan]_vars

\* Settings and linking between dispatch cycles: both employees are linked
\* under the email the portal holds for them and enabled; cycles run one
\* after the other while employees save settings and repeat the linking.
InitLink ==
    /\ hour = 15
    /\ h24 = FALSE
    /\ connections = [id \in Identities |-> <<ConnOk>>]
    /\ templates = [k \in Kinds |-> TRUE]
    /\ action_items = SchedActionItems
    /\ session_tracking = SchedSessions
    /\ slack_nudges = {}
    /\ slack_messages = {}
    /\ impl = "modular"
    /\ cyc = [c \in Cycles |-> IdleCycle]
    /\ started = 0
    /\ faults = 0
    /\ linkedAs = [id \in Identities |-> CompanyEmail(id)]
    /\ optedOut = [id \in Identities |-> 0]
    /\ TimeIdle /\ IntIdle /\ SurveyIdle /\ FnIdle

NextLink ==
    \/ \E c \in Cycles : StartCycleAfter(c) \/ Step(c)
    \/ \E id \in Identities, enabled \in BOOLEAN : UpdateSettings(id, enabled)
    \/ \E e \in Emails : OAuthCallback(e)

SpecLink == InitLink /\ [][NextLink]_vars

(* ------------------------- claims: scheduler --------------------------- *)

\* The messages delivered, and the NudgeRecords held, for one dedupe key.
SentFor(identity, kind, ref) ==
    {m \in slack_messages : /\ m.to = identity
                            /\ m.nudge_type = kind
                            /\ m.reference_id = ref}

RecordsFor(identity, kind, ref) ==
    {n \in slack_nudges : /\ n.employee_email = identity
                          /\ n.nudge_type = kind
                          /\ n.reference_id = ref}

AllCyclesIdle == \A c \in Cycles : cyc[c].pc = "idle"

\* C1 (as claimed): with cycles run one after the other over unchanged data,
\* once a cycle has sent and recorded a nudge for a key (employee, kind,
\* reference id) no later step sends a message for that key, for every nudge
\* kind, and the store never holds two NudgeRecords for one key.
C1_SecondCycleSendsNothing ==
    /\ [][\A m \in slack_messages' \ slack_messages :
            RecordsFor(m.to, m.nudge_type, m.reference_id) = {}]_vars
    /\ [](\A n1 \in slack_nudges :
            Cardinality(RecordsFor(n1.employee_email, n1.nudge_type,
                                   n1.reference_id)) <= 1)

\* C3: no message is ever delivered to, and no NudgeRecord ever written for,
\* an employee whose connection has nudge_enabled = false (or who has no
\* connection), whatever the hour, the templates and the records are.
C3_DisabledNeverSent ==
    /\ \A m \in slack_messages :
          \E i \in 1..Len(connections[m.to]) :
              connections[m.to][i].nudge_enabled
    /\ \A n \in slack_nudges :
          \E i \in 1..Len(connections[n.employee_email]) :
              connections[n.employee_email][i].nudge_enabled

\* C3 witness: Ann is disabled, inside her time window, all templates are
\* configured, a cycle has run to its end and has delivered Bob's nudge.
C3_Witness ==
    /\ connections["ann@boon.com"] = <<ConnDisabled>>
    /\ hour = 15
    /\ \A k \in Kinds : templates[k]
    /\ started >= 1
    /\ AllCyclesIdle
    /\ \E m \in slack_messages : m.to = "bob@boon.com"

\* C4 (as claimed): no message is ever delivered to an employee whose
\* connection has frequency mode 'none'.
C4_FrequencyNoneNeverSent ==
    \A m \in slack_messages :
        \A i \in 1..Len(connections[m.to]) :
            connections[m.to][i].nudge_frequency # "none"

\* C10 (as claimed), for the two loops that read slack_nudges before they
\* send and with every external call succeeding: with overlapping cycles no
\* goal check-in or session prep candidate is sent twice and no key has two
\* NudgeRecords.
C10_NoDoubleSendWhenOverlapping ==
    faults = 0 =>
        \A id \in Identities, k \in {"goal_checkin", "session_prep"} :
            \A ref \in {SessionIds[i] : i \in 1..Len(SessionIds)} :
                /\ Cardinality(SentFor(id, k, ref)) <= 1
                /\ Cardinality(RecordsFor(id, k, ref)) <= 1

\* C15: a goal check-in or session prep candidate is skipped as already
\* nudged only when a NudgeRecord with its own reference id exists, so a
\* record for another reference id of the same employee and kind never
\* suppresses it, and the record written for a candidate carries that
\* candidate's reference id.
C15_DedupePerReference ==
    [][\A c \in Cycles :
          /\ (/\ cyc[c].pc = "run" /\ cyc[c].step = "lookup"
              /\ cyc'[c] # cyc[c]
              /\ cyc'[c].step # "conn")
                => RecordsFor(ToLower(CurEmail(c)), cyc[c].phase,
                              CurRef(c)) # {}
          /\ (/\ cyc[c].pc = "run" /\ cyc[c].step = "record"
              /\ slack_nudges' # slack_nudges)
                => \A n \in slack_nudges' \ slack_nudges :
                       n.reference_id = CurRef(c)]_vars

\* C15 witness: Ann's two goal check-ins, s1 and s2, each have their own
\* NudgeRecord: s2 was sent while the record for s1 existed.
C15_Witness ==
    /\ RecordsFor("ann@boon.com", "goal_checkin", "s1") # {}
    /\ RecordsFor("ann@boon.com", "goal_checkin", "s2") # {}

\* The order of the categories and of the stages of one candidate.
PhaseRank(kind) ==
    CASE kind = "action_reminder" -> 1 [] kind = "goal_checkin" -> 2
      [] OTHER -> 3

StepRank(step) ==
    CASE step = "lookup" -> 1 [] step = "conn" -> 2 [] step = "send" -> 3
      [] step = "record" -> 4 [] OTHER -> 0

\* Cycle c moves forward: to a later candidate, or to a later stage of the
\* same candidate.
Forward(c) ==
    \/ PhaseRank(cyc'[c].phase) > PhaseRank(cyc[c].phase)
    \/ /\ cyc'[c].phase = cyc[c].phase
       /\ \/ cyc'[c].idx > cyc[c].idx
          \/ /\ cyc'[c].idx = cyc[c].idx
             /\ StepRank(cyc'[c].step) > StepRank(cyc[c].step)

\* C16: a running cycle only moves forward through its candidates and
\* through the stages of one candidate, so it sends at most one message and
\* writes at most one NudgeRecord per candidate; a message is delivered only
\* by the send stage; a NudgeRecord is written only by the stage after an
\* acknowledged send, with status sent and the handle and channel of the
\* message delivered for that candidate.
C16_OneMessageOneRecordPerCandidate ==
    [][/\ \A c \in Cycles :
             (cyc[c].pc = "run" /\ cyc'[c] # cyc[c] /\ cyc'[c].pc = "run")
                 => Forward(c)
       /\ Cardinality(slack_messages' \ slack_messages) <= 1
       /\ Cardinality(slack_nudges' \ slack_nudges) <= 1
       /\ \A m \in slack_messages' \ slack_messages :
             \E c \in Cycles :
                 /\ cyc[c].pc = "run" /\ cyc[c].step = "send"
                 /\ cyc'[c].step = "record" /\ cyc'[c].ts = m.ts
                 /\ cyc'[c].phase = cyc[c].phase /\ cyc'[c].idx = cyc[c].idx
                 /\ m.reference_id = CurRef(c)
       /\ \A n \in slack_nudges' \ slack_nudges :
             \E c \in Cycles :
                 /\ cyc[c].pc = "run" /\ cyc[c].step = "record"
                 /\ cyc'[c] # cyc[c]
                 /\ n.status = "sent"
                 /\ n.reference_id = CurRef(c)
                 /\ n.message_ts = cyc[c].ts
                 /\ \E m \in slack_messages :
                       /\ m.ts = n.message_ts
                       /\ m.channel = n.channel_id
                       /\ m.to = n.employee_email
                       /\ m.nudge_type = n.nudge_type
                       /\ m.reference_id = n.reference_id]_vars

\* C16 witness: overlapping cycles have finished; a NudgeRecord was written
\* for a delivered message and one send was not acknowledged.
C16_Witness ==
    /\ started >= 1
    /\ AllCyclesIdle
    /\ faults >= 1
    /\ \E n \in slack_nudges : \E m \in slack_messages : m.ts = n.message_ts

\* C17 (as claimed): whenever a send is not acknowledged or throws, in
\* either scheduler and for every nudge kind, the cycle's error counter goes
\* up by one, no NudgeRecord is written and the cycle leaves the candidate.
C17_FailedSendCounted ==
    [][\A c \in Cycles :
          (/\ cyc[c].pc = "run" /\ cyc[c].step = "send"
           /\ cyc'[c] # cyc[c]
           /\ slack_messages' = slack_messages)
              => /\ cyc'[c].results.errors = cyc[c].results.errors + 1
                 /\ slack_nudges' = slack_nudges
                 /\ (cyc'[c].pc = "idle" \/ Forward(c))]_vars

\* C18 (as claimed): a cycle that has returned has counted one error for
\* every category whose eligibility query failed.
C18_QueryFailureCounted ==
    \A c \in Cycles :
        cyc[c].pc = "idle" =>
            cyc[c].results.errors >= Cardinality(cyc[c].failed)

\* C19 (as claimed): whatever the number of cycles, no key (employee, kind,
\* reference id) has more than two messages delivered.
C19_AtMostTwoMessagesPerKey ==
    \A m \in slack_messages :
        Cardinality(SentFor(m.to, m.nudge_type, m.reference_id)) <= 2

\* C22 (as claimed): every session the goal check-in query returns is
\* Completed, has a non-empty goals text, and is dated 3 to 4 days before
\* the scheduler's current date.
C22_GoalCandidatesCompletedWithGoalsInWindow ==
    scanned # <<>> =>
        \A i \in 1..Len(scanned[1]) :
            LET session == session_tracking[scanned[1][i]]
            IN /\ session.status = "Completed"
               /\ session.goals \notin {NULL, ""}
               /\ session.session_date \in -4..-3

\* C23 (as claimed): once an employee's enabled=false settings update has
\* been acknowledged, no cycle started afterwards delivers a message to that
\* employee until the employee enables nudges again.
C23_OptOutHoldsUntilChanged ==
    [][\A m \in slack_messages' \ slack_messages :
          optedOut[m.to] = 0 \/ started < optedOut[m.to]]_vars

\* C24 (as claimed): whenever a cycle counts a message as sent, a NudgeRecord
\* with that message's handle is persisted; a record_nudge that fails after
\* an acknowledged send is not counted as sent.
C24_CountedSentIsRecorded ==
    [][\A c \in Cycles : \A k \in Kinds :
          cyc'[c].results[k] > cyc[c].results[k] =>
              \E n \in slack_nudges' : /\ n.message_ts = cyc[c].ts
                                       /\ n.nudge_type = k
                                       /\ n.reference_id = CurRef(c)]_vars

\* C30 (as claimed): the two scheduler implementations are equivalent: a
\* candidate at the guards passes them under the modular scheduler exactly
\* when it passes them under the self-contained one (connection, enabled
\* flag, timing gate with or without a preferred time, template), and a send
\* that delivers no message adds one error to the count under either.
C30_SchedulersEquivalent ==
    /\ [](\A c \in Cycles :
            Running(c, "conn") =>
                (passesGuards("modular", cyc[c].phase, CurEmail(c))
                    <=> passesGuards("standalone", cyc[c].phase, CurEmail(c))))
    /\ [][\A c \in Cycles :
            (/\ Running(c, "send") /\ cyc'[c] # cyc[c]
             /\ slack_messages' = slack_messages)
                => cyc'[c].results.errors = cyc[c].results.errors + 1]_vars

(* ------------------------ claims: timing gate -------------------------- *)

\* C5 (as claimed): whenever the gate has been evaluated for a valid timezone
\* and a preferred time with hour p at recipient-local hour h, it passed
\* exactly when |h - p| <= 1, the minutes being ignored.
C5_GatePassesExactlyWithinOneHour ==
    (gate # <<>> /\ tTz /\ tPreferred # <<>>) =>
        (gate[1] <=> (hour - tPreferred[1] \in {-1, 0, 1}))

\* C28 (as claimed): the window is symmetric across midnight: with a valid
\* timezone, a preferred hour of 23 passes at the local hours 22, 23 and 0,
\* and a preferred hour of 0 passes at the local hours 23, 0 and 1.
C28_WindowWrapsAroundMidnight ==
    (/\ gate # <<>> /\ tTz /\ tPreferred # <<>>
     /\ \/ tPreferred[1] = 23 /\ hour \in {22, 23, 0}
        \/ tPreferred[1] = 0 /\ hour \in {23, 0, 1})
        => gate[1]

(* --------------------- claims: interaction handler --------------------- *)

\* The callback handled by the step, and what the handler answered.
Handled == now' = now + 1

StoreUnchanged == UNCHANGED <<action_items, slack_nudges, slack_updates,
                   fnVars, linkVars>>

\* C6: after an accepted 'done' callback whose update did not fail, the
\* referenced action item has status completed and a completion timestamp,
\* whether it is the first or a repeated delivery; no callback ever turns a
\* completed item back or adds an action item.
C6_DoneTwiceStaysCompleted ==
    /\ [](\A id \in DOMAIN action_items :
            (/\ reply # <<>>
             /\ reply[1].stage = "switch"
             /\ reply[1].failed # "update"
             /\ reply[1].request.body.action_id = "action_done"
             /\ reply[1].request.body.block_id = <<"action", id>>)
            => /\ action_items[id].status = "completed"
               /\ action_items[id].completed_at # <<>>)
    /\ [][/\ DOMAIN action_items' = DOMAIN action_items
          /\ \A id \in DOMAIN action_items :
                action_items[id].status = "completed"
                    => action_items'[id].status = "completed"]_vars

\* C6 witness: the same genuine 'done' click for a1 has been delivered twice,
\* both times accepted, and a1 is completed.
C6_Witness ==
    /\ reply # <<>>
    /\ reply[1].again
    /\ reply[1].request = Request(Hmac(SlackSecret, 0, DoneClick), 0, DoneClick)
    /\ reply[1].stage = "switch"
    /\ reply[1].failed = "none"
    /\ now = 2
    /\ action_items["a1"].status = "completed"

C8_StaleTimestampRejected ==
    [][(/\ Handled
        /\ signingSecret # ""
        /\ reply'[1].request.timestamp > ReplayWindow)
       => (reply'[1].status # 200 /\ StoreUnchanged)]_vars

\* C9 (as claimed): every callback that passed the signature verification
\* was answered 200.
C9_VerifiedAlwaysAcknowledged ==
    (reply # <<>> /\ reply[1].stage # "invalid_signature")
        => reply[1].status = 200

\* C20: a handled callback whose button is not 'done' (in progress,
\* reschedule, need help, progress great / slow / stuck, or an unknown id)
\* leaves every action item as it was; of the NudgeRecords it changes only
\* the one with the clicked message's handle and channel, to status responded
\* with the button as response, and it replaces only that message's text.
C20_OnlyDoneChangesActionItems ==
    [][(Handled /\ reply'[1].request.body.action_id # "action_done") =>
          LET b == reply'[1].request.body
          IN /\ action_items' = action_items
             /\ \A n \in slack_nudges \ slack_nudges' :
                   /\ b.message # <<>>
                   /\ n.message_ts = b.message[1]
                   /\ n.channel_id = b.message[2]
             /\ \A r \in slack_nudges' \ slack_nudges :
                   /\ r.status = "responded"
                   /\ r.response = b.action_id
                   /\ \E n \in slack_nudges \ slack_nudges' :
                         /\ n.employee_email = r.employee_email
                         /\ n.nudge_type = r.nudge_type
                         /\ n.reference_id = r.reference_id
                         /\ n.message_ts = r.message_ts
                         /\ n.channel_id = r.channel_id
             /\ DOMAIN slack_updates' = DOMAIN slack_updates
             /\ \A h \in DOMAIN slack_updates :
                   slack_updates'[h] # slack_updates[h] =>
                       /\ b.message # <<>>
                       /\ h = <<b.message[1], b.message[2]>>
                       /\ slack_updates'[h] = b.action_id]_vars

\* C20 witness: a verified 'in progress', 'reschedule', 'need help' or
\* 'progress' click on the reminder for a1 has been handled: its NudgeRecord
\* is responded with that button, the message text is replaced, and a1 is
\* still pending.
C20_Witness ==
    /\ reply # <<>>
    /\ reply[1].stage = "switch"
    /\ reply[1].failed = "none"
    /\ reply[1].request.body.action_id \in HandledButtons \ {"action_done"}
    /\ reply[1].request.body.block_id = <<"action", "a1">>
    /\ \E n \in slack_nudges :
          /\ n.status = "responded"
          /\ n.response = reply[1].request.body.action_id
    /\ slack_updates[<<ActionMessage.ts, ActionMessage.channel>>]
          = reply[1].request.body.action_id
    /\ action_items["a1"].status = "pending"
    /\ action_items["a1"].completed_at = <<>>

\* C25 (as claimed): a callback changes an action item only when a
\* NudgeRecord exists for the callback's (message handle, channel) and the
\* changed item is that record's reference id; a done callback without such
\* a record, or naming another item, changes nothing.
C25_DoneOnlyForRecordedNudge ==
    [][(Handled /\ action_items' # action_items) =>
          LET b == reply'[1].request.body
          IN /\ b.message # <<>>
             /\ \E n \in slack_nudges :
                   /\ n.message_ts = b.message[1]
                   /\ n.channel_id = b.message[2]
                   /\ \A id \in DOMAIN action_items :
                         action_items'[id] # action_items[id]
                             => n.reference_id = id]_vars

\* C29: whatever the interleaving of portal status updates and 'done'
\* clicks, an action item has a completion timestamp exactly when its status
\* is completed.
C29_CompletedAtIffCompleted ==
    \A id \in DOMAIN action_items :
        action_items[id].completed_at # <<>>
            <=> action_items[id].status = "completed"

\* A 'done' click completed a1, and the portal dismissed it afterwards.
C29_Witness ==
    /\ reply # <<>>
    /\ reply[1].stage = "switch" /\ reply[1].failed = "none"
    /\ reply[1].request.body.action_id = "action_done"
    /\ reply[1].request.body.block_id = <<"action", "a1">>
    /\ action_items["a1"].status = "dismissed"
    /\ action_items["a1"].completed_at = <<>>

(* ----------------------- claims: survey resolver ----------------------- *)

\* C2 (as claimed): what fetchPendingSurvey returned is the completed
\* milestone session with the lowest ordinal among those with no submission,
\* or nothing when there is none, whether the rpc or the fallback answered.
C2_ReturnsEarliestUnsurveyed ==
    pending # <<>> =>
        LET open == {id \in DOMAIN survey_sessions :
                        /\ survey_sessions[id].status = "Completed"
                        /\ survey_sessions[id].appointment_number
                               \in {1, 3, 6, 12, 18, 24, 30, 36}
                        /\ \A ss \in survey_submissions : ss.session_id # id}
        IN IF open = {} THEN pending[1].session_id = "none"
           ELSE /\ pending[1].session_id \in open
                /\ \A id \in open :
                      pending[1].session_number
                          <= survey_sessions[id].appointment_number

GrowFamily == {"GROW", "Grow", "GROW - Cohort 1"}

\* C12 (as claimed): the survey kind returned for a session is grow_baseline
\* exactly when the session's program is GROW-family and the employee has no
\* grow_baseline submission, and scale_feedback otherwise, on the rpc path
\* and on the fallback path.
C12_KindFollowsProgramAndBaseline ==
    (pending # <<>> /\ pending[1].session_id # "none") =>
        pending[1].survey_type =
            IF /\ survey_sessions[pending[1].session_id].program_name
                      \in GrowFamily
               /\ \A ss \in survey_submissions :
                      ss.survey_type # "grow_baseline"
            THEN "grow_baseline" ELSE "scale_feedback"

\* C13 (as claimed): survey_submissions holds at most one row per employee
\* and session reference.
C13_OneSubmissionPerSession ==
    \A a \in survey_submissions, b \in survey_submissions :
        (a.session_id # "none" /\ a.session_id = b.session_id
            /\ a.email = b.email) => a = b

\* C14 (as claimed): every grow_baseline or grow_end submission in the store
\* has its competency scores in the store.
C14_GrowSubmissionHasScores ==
    \A ss \in survey_submissions :
        ss.survey_type \in {"grow_baseline", "grow_end"} =>
            \A c \in Competencies :
                \E sc \in survey_competency_scores :
                    /\ sc.survey_submission_id = ss.id
                    /\ sc.competency_name = c

\* C27: the progression terminates: an employee who keeps fetching the
\* pending survey and submitting the survey of the returned kind is
\* eventually answered "no pending survey", and stays so; for SCALE and GROW
\* programs, on the rpc path and on the fallback path.
C27_ProgressionTerminates == <>[](pending = <<NoPending>>)

\* Two answers were recorded, a baseline among them, and the next fetch
\* returned no obligation.
C27_Witness ==
    /\ pending = <<NoPending>>
    /\ Cardinality(Inserted) >= 2
    /\ \E ss \in Inserted : ss.survey_type = "grow_baseline"
    /\ \E ss \in Inserted : ss.survey_type = "scale_feedback"

(* --------------------- claims: template rendering ---------------------- *)

\* C21 (as claimed): in what renderBlocks returns, every placeholder for
\* which no variable, or a null one, was supplied has become the empty
\* string, in the shared module and in the self-contained scheduler.
C21_UnresolvedRendersEmpty ==
    (rendered # <<>> /\ rendered[1].ok) =>
        \A i \in 1..Len(rBlocks) :
            (/\ rBlocks[i].ph
             /\ \/ rBlocks[i].s \notin DOMAIN rVars
                \/ rVars[rBlocks[i].s] = NULL)
                => rendered[1].blocks[i] = [ph |-> FALSE, s |-> ""]

====
